---- MODULE Spec2Model ----
(***************************************************************************)
(* The filter rule compiler and matcher of conditional-paths-action        *)
(* (src/lib/filter.ts), one run of the action (src/lib/action.ts,          *)
(* src/main.ts), the escape functions of src/lib/list-format, and the      *)
(* change detection (getChangedFiles, getChangesSinceMergeBase).  Strings  *)
(* the code inspects character by character (status keys, the list-files   *)
(* input, refs, values to escape) are sequences of one-character strings;  *)
(* strings the code only passes on (glob patterns, file names, filter      *)
(* names) are atoms.                                                       *)
(* A decoded YAML value is a record [t, v]: t is the kind of the value and *)
(* v its payload.                                                          *)
(***************************************************************************)
EXTENDS Integers, Sequences, FiniteSets, TLC

VARIABLES rules, filterConfig, thrown, files, result, op,
          item, compiled, file, matched, stage,
          inputs, promise, outputs, failed, infos, pc,
          arg, escaped, escaper,
          context, detection, search

vars == <<rules, filterConfig, thrown, files, result, op,
          item, compiled, file, matched, stage,
          inputs, promise, outputs, failed, infos, pc,
          arg, escaped, escaper,
          context, detection, search>>

filterVars == <<rules, thrown, files, result, op>>
ruleVars == <<item, compiled, file, matched, stage>>
\* one run of the action: the inputs of the step, the promise returned by
\* runPathsFilterAction, the calls of core.setOutput and core.setFailed, the
\* core.info calls of runPathsFilterAction and exportResults, and the position
\* of main
runVars == <<inputs, promise, outputs, failed, infos, pc>>

\* one call of an escape function of src/lib/list-format: its argument, its
\* value, and the function called
escapeVars == <<arg, escaped, escaper>>

\* change detection: the inputs and the event getChangedFiles works on, what
\* it did (the detection method called, its warnings and info lines, the error
\* thrown), and the state of one getChangesSinceMergeBase call
detectVars == <<context, detection, search>>

auxVars == <<escapeVars, detectVars>>

(***************************************************************************)
(* Bounds of the model.                                                    *)
(***************************************************************************)
\* nodes (lists and leaves) of a nested rule item
MaxNodes == 5
\* files in one changed-file list
MaxFiles == 2
\* characters of a string handed to an escape function
MaxLen == 3
\* entries of one filter document
MaxEntries == 2
\* commits `git rev-list --count --all` can report
MaxCommits == 3

(***************************************************************************)
(* Characters and JavaScript string primitives.                            *)
(***************************************************************************)
UpperCase == <<"A","B","C","D","E","F","G","H","I","J","K","L","M",
               "N","O","P","Q","R","S","T","U","V","W","X","Y","Z">>
LowerCase == <<"a","b","c","d","e","f","g","h","i","j","k","l","m",
               "n","o","p","q","r","s","t","u","v","w","x","y","z">>
WhiteSpace == {" ", "\t", "\n"}

\* String.prototype.toLowerCase, one character
LowerChar(c) ==
    IF \E i \in 1..Len(UpperCase) : UpperCase[i] = c
    THEN LowerCase[CHOOSE i \in 1..Len(UpperCase) : UpperCase[i] = c]
    ELSE c

toLowerCase(s) == [i \in 1..Len(s) |-> LowerChar(s[i])]

\* String.prototype.split('|'): the pieces between the bars, empty ones kept
RECURSIVE split(_)
split(s) ==
    IF s = <<>> THEN << <<>> >>
    ELSE LET rest == split(Tail(s))
         IN  IF Head(s) = "|"
             THEN << <<>> >> \o rest
             ELSE << <<Head(s)>> \o rest[1] >> \o Tail(rest)

RECURSIVE trimStart(_)
trimStart(s) ==
    IF s # <<>> /\ Head(s) \in WhiteSpace THEN trimStart(Tail(s)) ELSE s

RECURSIVE trimEnd(_)
trimEnd(s) ==
    IF s # <<>> /\ s[Len(s)] \in WhiteSpace
    THEN trimEnd(SubSeq(s, 1, Len(s) - 1))
    ELSE s

\* String.prototype.trim
trim(s) == trimEnd(trimStart(s))

(***************************************************************************)
(* file.ts: ChangeStatus and File.                                         *)
(***************************************************************************)
Added == <<"a","d","d","e","d">>
Copied == <<"c","o","p","i","e","d">>
Deleted == <<"d","e","l","e","t","e","d">>
Modified == <<"m","o","d","i","f","i","e","d">>
Renamed == <<"r","e","n","a","m","e","d">>
Unmerged == <<"u","n","m","e","r","g","e","d">>

ChangeStatus == {Added, Copied, Deleted, Modified, Renamed, Unmerged}

\* the file names and statuses the model draws changed files from
Filenames == {"src/a.ts", "lib/a.ts", "b/y.md"}
Statuses == {Added, Modified, Deleted}
File == [filename : Filenames, status : Statuses]

(***************************************************************************)
(* picomatch: the glob engine, an external capability.  A compiled matcher *)
(* is the sequence of its globs; it accepts a string that any of them      *)
(* accepts.  GlobLanguage is picomatch's verdict on the model's file names *)
(* with MatchOptions {dot: true}.                                          *)
(***************************************************************************)
GlobLanguage(glob) ==
    CASE glob = "src/**" -> {"src/a.ts"}
      [] glob = "**/*.ts" -> {"src/a.ts", "lib/a.ts"}
      [] glob = "b/**" -> {"b/y.md"}
      [] glob = "**" -> Filenames
      [] OTHER -> {}

\* picomatch(pattern, MatchOptions): pattern is a string or an array of strings
picomatch(pattern) ==
    IF pattern.t = "array"
    THEN [i \in 1..Len(pattern.v) |-> pattern.v[i].v]
    ELSE <<pattern.v>>

\* rule.isMatch(file.filename)
MatcherAccepts(matcher, str) ==
    \E i \in 1..Len(matcher) : str \in GlobLanguage(matcher[i])

(***************************************************************************)
(* Decoded YAML values.                                                    *)
(***************************************************************************)
YString(s) == [t |-> "string", v |-> s]
YNumber == [t |-> "number", v |-> "42"]
YBoolean == [t |-> "boolean", v |-> "true"]
YNull == [t |-> "null", v |-> "null"]
YArray(seq) == [t |-> "array", v |-> seq]
\* a mapping: its entries <<key, value>> in property order
YObject(entries) == [t |-> "object", v |-> entries]

\* the typeof operator
typeof(x) ==
    CASE x.t = "string" -> "string"
      [] x.t = "number" -> "number"
      [] x.t = "boolean" -> "boolean"
      [] OTHER -> "object"

\* Array.isArray
IsArray(x) == x.t = "array"

(***************************************************************************)
(* Errors.                                                                 *)
(***************************************************************************)
NoError == [name |-> "none", message |-> <<>>]

\* Filter.throwInvalidFormatError
throwInvalidFormatError(message) ==
    [name |-> "Error",
     message |-> <<"Invalid filter YAML format: ", message, ".">>]

\* Object.entries(null)
NullEntriesError ==
    [name |-> "TypeError",
     message |-> <<"Cannot convert undefined or null to object">>]

Return(value) == [error |-> NoError, v |-> value]
Throw(error) == [error |-> error, v |-> <<>>]
Threw(outcome) == outcome.error # NoError

(***************************************************************************)
(* JavaScript objects as property lists: <<key, value>> pairs in property  *)
(* order.  Integer-like keys come first, in ascending numeric order; the   *)
(* other keys follow in insertion order.                                   *)
(***************************************************************************)
IndexKeys == <<"0", "1", "2", "3">>

\* the array index a property key denotes, -1 when it denotes none
ArrayIndex(key) ==
    IF \E i \in 1..Len(IndexKeys) : IndexKeys[i] = key
    THEN (CHOOSE i \in 1..Len(IndexKeys) : IndexKeys[i] = key) - 1
    ELSE -1

HasKey(obj, key) == \E i \in 1..Len(obj) : obj[i][1] = key

Get(obj, key) == obj[CHOOSE i \in 1..Len(obj) : obj[i][1] = key][2]

\* obj[key] = value
ObjSet(obj, key, value) ==
    IF HasKey(obj, key)
    THEN [i \in 1..Len(obj) |-> IF obj[i][1] = key THEN <<key, value>> ELSE obj[i]]
    ELSE IF ArrayIndex(key) >= 0
    THEN LET before == SelectSeq(obj, LAMBDA e : ArrayIndex(e[1]) >= 0
                                              /\ ArrayIndex(e[1]) < ArrayIndex(key))
             after == SelectSeq(obj, LAMBDA e : ~(ArrayIndex(e[1]) >= 0
                                                /\ ArrayIndex(e[1]) < ArrayIndex(key)))
         IN  before \o << <<key, value>> >> \o after
    ELSE Append(obj, <<key, value>>)

\* Object.entries of a mapping or of an array (whose keys are its indices)
ObjectEntries(x) ==
    IF x.t = "array"
    THEN [i \in 1..Len(x.v) |-> <<IndexKeys[i], x.v[i]>>]
    ELSE x.v

(***************************************************************************)
(* filter.ts: the rule compiler.                                           *)
(***************************************************************************)
PredicateQuantifier == {"every", "some"}

\* filterConfig?.predicateQuantifier: "undefined" when no FilterConfig is given
FilterConfigs == {"undefined"} \cup PredicateQuantifier

\* flat with the operands of concat swapped: val.concat(acc)
RECURSIVE flatSwapped(_)
flatSwapped(arr) ==
    IF arr = <<>> THEN <<>>
    ELSE arr[Len(arr)] \o flatSwapped(SubSeq(arr, 1, Len(arr) - 1))

\* flat: arr.reduce((acc, val) => acc.concat(val), [])
RECURSIVE flat(_)
flat(arr) ==
    IF arr = <<>> THEN <<>>
    ELSE flat(SubSeq(arr, 1, Len(arr) - 1)) \o arr[Len(arr)]

\* parseStatus without the trim step
parseStatusNoTrim(key) ==
    LET pieces == split(key)
        kept == SelectSeq(pieces, LAMBDA x : Len(x) > 0)
    IN  [i \in 1..Len(kept) |-> toLowerCase(kept[i])]

\* key.split('|').map(trim).filter(x => x.length > 0).map(toLowerCase)
parseStatus(key) ==
    LET pieces == split(key)
        trimmed == [i \in 1..Len(pieces) |-> trim(pieces[i])]
        kept == SelectSeq(trimmed, LAMBDA x : Len(x) > 0)
    IN  [i \in 1..Len(kept) |-> toLowerCase(kept[i])]

\* picomatch throws on a pattern that is no string
PicomatchThrows(pattern) ==
    /\ pattern.t = "array"
    /\ \E i \in 1..Len(pattern.v) : pattern.v[i].t # "string"

PicomatchError ==
    [name |-> "TypeError",
     message |-> <<"Expected pattern to be a non-empty string">>]

\* the outcome that throws first among the outcomes of a map() in index order
FirstThrown(outcomes) ==
    outcomes[CHOOSE i \in 1..Len(outcomes) :
                /\ Threw(outcomes[i])
                /\ \A j \in 1..(i - 1) : ~Threw(outcomes[j])]

\* the callback of Object.entries(item).map in parseFilterItemYaml
parseStatusEntry(entry) ==
    LET key == entry[1]
        pattern == entry[2]
    IN  IF typeof(pattern) # "string" /\ ~IsArray(pattern)
        THEN Throw(throwInvalidFormatError(
                 "Expected [key:string]= pattern:string | string[], but "
                 \o typeof(pattern) \o " found"))
        ELSE IF PicomatchThrows(pattern)
        THEN Throw(PicomatchError)
        ELSE Return([hasStatus |-> TRUE,
                     status |-> parseStatus(key),
                     isMatch |-> picomatch(pattern)])

\* Filter.parseFilterItemYaml: the predicates of one rule item, or the error
RECURSIVE parseFilterItemYaml(_)
parseFilterItemYaml(it) ==
    IF IsArray(it)
    THEN LET parts == [i \in 1..Len(it.v) |-> parseFilterItemYaml(it.v[i])]
         IN  IF \E i \in 1..Len(parts) : Threw(parts[i])
             THEN FirstThrown(parts)
             ELSE Return(flat([i \in 1..Len(parts) |-> parts[i].v]))
    ELSE IF typeof(it) = "string"
    THEN Return(<< [hasStatus |-> FALSE, status |-> <<>>, isMatch |-> picomatch(it)] >>)
    ELSE IF typeof(it) = "object"
    THEN IF it.t = "null"
         THEN Throw(NullEntriesError)
         ELSE LET parts == [i \in 1..Len(it.v) |-> parseStatusEntry(it.v[i])]
              IN  IF \E i \in 1..Len(parts) : Threw(parts[i])
                  THEN FirstThrown(parts)
                  ELSE Return([i \in 1..Len(parts) |-> parts[i].v])
    ELSE Throw(throwInvalidFormatError(
             "Unexpected element type '" \o typeof(it) \o "'"))

(***************************************************************************)
(* filter.ts: the matcher.                                                 *)
(***************************************************************************)
\* rule.status.includes(file.status)
includes(arr, x) == \E i \in 1..Len(arr) : arr[i] = x

\* aPredicate of Filter.isMatch
aPredicate(f, rule) ==
    /\ (~rule.hasStatus \/ includes(rule.status, f.status))
    /\ MatcherAccepts(rule.isMatch, f.filename)

\* isMatch that takes the status from one predicate and the path from another
isMatchSplit(f, patterns) ==
    IF filterConfig = "every"
    THEN \A i \in 1..Len(patterns) : aPredicate(f, patterns[i])
    ELSE /\ \E i \in 1..Len(patterns) :
               ~patterns[i].hasStatus \/ includes(patterns[i].status, f.status)
         /\ \E i \in 1..Len(patterns) :
               MatcherAccepts(patterns[i].isMatch, f.filename)

\* isMatch that ignores the configured quantifier
isMatchAlwaysSome(f, patterns) ==
    \E i \in 1..Len(patterns) : aPredicate(f, patterns[i])

\* isMatch with a defensive false for a rule without predicates
isMatchEmptyFalse(f, patterns) ==
    IF filterConfig = "every"
    THEN /\ patterns # <<>>
         /\ \A i \in 1..Len(patterns) : aPredicate(f, patterns[i])
    ELSE \E i \in 1..Len(patterns) : aPredicate(f, patterns[i])

\* Filter.isMatch
isMatch(f, patterns) ==
    IF filterConfig = "every"
    THEN \A i \in 1..Len(patterns) : aPredicate(f, patterns[i])
    ELSE \E i \in 1..Len(patterns) : aPredicate(f, patterns[i])

\* filter that returns the matching files last first
filterReversed(fs, patterns) ==
    LET kept == SelectSeq(fs, LAMBDA f : isMatch(f, patterns))
    IN  [i \in 1..Len(kept) |-> kept[Len(kept) + 1 - i]]

\* files.filter(file => this.isMatch(file, patterns))
filter(fs, patterns) == SelectSeq(fs, LAMBDA f : isMatch(f, patterns))

\* match that records only the filters that matched a file
RECURSIVE matchLoopSkipEmpty(_, _)
matchLoopSkipEmpty(fs, n) ==
    IF n = 0 THEN <<>>
    ELSE IF SelectSeq(fs, LAMBDA f : isMatch(f, rules[n][2])) = <<>>
    THEN matchLoopSkipEmpty(fs, n - 1)
    ELSE ObjSet(matchLoopSkipEmpty(fs, n - 1), rules[n][1],
                SelectSeq(fs, LAMBDA f : isMatch(f, rules[n][2])))

\* the loop of Filter.match over the first n entries of this.rules
RECURSIVE matchLoop(_, _)
matchLoop(fs, n) ==
    IF n = 0 THEN <<>>
    ELSE ObjSet(matchLoop(fs, n - 1), rules[n][1], filter(fs, rules[n][2]))

\* Filter.match
match(fs) == matchLoop(fs, Len(rules))

(***************************************************************************)
(* filter.ts: Filter.load.                                                 *)
(***************************************************************************)
EmptyYaml == [t |-> "empty", v |-> ""]

\* jsyaml.load: a mapping's declared entries become the properties of an object
RECURSIVE defineAll(_, _)
defineAll(obj, entries) ==
    IF entries = <<>> THEN obj
    ELSE defineAll(ObjSet(obj, Head(entries)[1], Head(entries)[2]), Tail(entries))

jsyamlLoad(yaml) ==
    IF yaml.t = "mapping" THEN YObject(defineAll(<<>>, yaml.v)) ELSE yaml

\* the for loop of Filter.load: it stops at the first entry that throws
RECURSIVE loadLoop(_, _)
loadLoop(rs, entries) ==
    IF entries = <<>> THEN [rules |-> rs, error |-> NoError]
    ELSE LET parsed == parseFilterItemYaml(Head(entries)[2])
         IN  IF Threw(parsed)
             THEN [rules |-> rs, error |-> parsed.error]
             ELSE loadLoop(ObjSet(rs, Head(entries)[1], parsed.v), Tail(entries))

\* a load that starts from an empty rule table
loadFresh(rs, yaml) ==
    IF yaml = EmptyYaml THEN [rules |-> rs, error |-> NoError]
    ELSE LET doc == jsyamlLoad(yaml)
         IN  IF typeof(doc) # "object"
             THEN [rules |-> rs,
                   error |-> throwInvalidFormatError("Root element is not an object")]
             ELSE IF doc.t = "null"
             THEN [rules |-> rs, error |-> NullEntriesError]
             ELSE loadLoop(<<>>, ObjectEntries(doc))

\* Filter.load: the rule table and the error after load(yaml) on table rs
load(rs, yaml) ==
    IF yaml = EmptyYaml THEN [rules |-> rs, error |-> NoError]
    ELSE LET doc == jsyamlLoad(yaml)
         IN  IF typeof(doc) # "object"
             THEN [rules |-> rs,
                   error |-> throwInvalidFormatError("Root element is not an object")]
             ELSE IF doc.t = "null"
             THEN [rules |-> rs, error |-> NullEntriesError]
             ELSE loadLoop(rs, ObjectEntries(doc))

(***************************************************************************)
(* The inputs the model draws from.                                        *)
(***************************************************************************)
\* status keys as written in a filter document
KeyAdded == <<"a","d","d","e","d">>
KeyDeleted == <<"d","e","l","e","t","e","d">>
\* "Added | MODIFIED|"
KeyMixed == <<"A","d","d","e","d"," ","|"," ","M","O","D","I","F","I","E","D","|">>
\* "|"
KeyBar == <<"|">>
\* " deleted<tab>"
KeyPadded == <<" ","d","e","l","e","t","e","d","\t">>
StatusKeys == {KeyAdded, KeyDeleted, KeyMixed, KeyBar, KeyPadded}

StatusMap(key, pattern) == YObject(<< <<key, pattern>> >>)

\* the leaves of nested rule items
NestLeaves ==
    {YString("src/**"),
     StatusMap(KeyDeleted, YString("src/**")),
     StatusMap(KeyAdded, YString("b/**")),
     YNull}

\* ItemTable(n): E[m] is the set of the rule items of exactly m nodes, for m
\* up to n, and F[k + 1] the set of the sequences of rule items of k nodes in
\* all, for k below n
RECURSIVE ItemTable(_)
ItemTable(n) ==
    IF n = 0 THEN [E |-> <<>>, F |-> <<>>]
    ELSE LET prev == ItemTable(n - 1)
             forests ==
                 IF n = 1 THEN {<<>>}
                 ELSE UNION {{<<t>> \o f : t \in prev.E[j], f \in prev.F[n - j]} :
                                j \in 1..(n - 1)}
             items ==
                 (IF n = 1 THEN NestLeaves ELSE {}) \cup {YArray(f) : f \in forests}
         IN  [E |-> Append(prev.E, items), F |-> Append(prev.F, forests)]

NestedItems ==
    LET table == ItemTable(MaxNodes)
    IN  UNION {table.E[n] : n \in 1..MaxNodes}

\* the values of a status mapping
PatternValues ==
    {YString("src/**"), YString("**/*.ts"),
     YArray(<<>>),
     YArray(<<YString("**/*.ts"), YString("src/**")>>),
     YArray(<<YString("src/**"), YString("b/**")>>),
     YArray(<<YNumber>>),
     YNumber, YBoolean, YNull, YObject(<<>>)}

StatusMaps ==
    {StatusMap(k, p) : k \in StatusKeys, p \in PatternValues}
    \cup {YObject(<< <<KeyAdded, p>>, <<KeyDeleted, q>> >>) :
            p, q \in {YString("src/**"), YString("**/*.ts"), YNumber}}
    \cup {YObject(<<>>)}

\* [["a/**"], [{"added": "b/**"}]]
NestedExample ==
    YArray(<<YArray(<<YString("a/**")>>),
             YArray(<<StatusMap(KeyAdded, YString("b/**"))>>)>>)

\* ["**/*.ts", "src/**"]
StrictRule == YArray(<<YString("**/*.ts"), YString("src/**")>>)

\* rule items that nest a number
NumberItems ==
    {YNumber,
     YArray(<<YNumber>>),
     YArray(<<YString("src/**"), YNumber>>),
     YArray(<<YNumber, YNull>>),
     YArray(<<YArray(<<YNull>>), YNumber>>),
     YArray(<<YArray(<<YString("src/**"), YArray(<<YNumber>>)>>)>>)}

RuleItems ==
    NestedItems \cup StatusMaps \cup NumberItems
        \cup {YBoolean, NestedExample, StrictRule}

\* the rule items of the documents a Filter loads
FilterItems ==
    {YString("src/**"),
     YArray(<<YString("**/*.ts"), YString("src/**")>>),
     YArray(<<>>),
     YArray(<<StatusMap(KeyDeleted, YString("src/**")),
              StatusMap(KeyAdded, YString("b/**"))>>),
     YNull, YNumber}

FilterNames == {"src", "docs"}

\* the sequences of n entries with distinct names
Entries(n) ==
    {e \in [1..n -> FilterNames \X FilterItems] :
        \A i, j \in 1..n : i # j => e[i][1] # e[j][1]}

YMapping(entries) == [t |-> "mapping", v |-> entries]

Yamls ==
    {EmptyYaml} \cup UNION {{YMapping(e) : e \in Entries(n)} : n \in 1..MaxEntries}

\* the changed files of the lists a Filter matches
ChangedFiles ==
    {[filename |-> "src/a.ts", status |-> Added],
     [filename |-> "lib/a.ts", status |-> Deleted],
     [filename |-> "b/y.md", status |-> Added]}

FileLists == UNION {[1..n -> ChangedFiles] : n \in 0..MaxFiles}

NoFile == [filename |-> "", status |-> <<>>]

(***************************************************************************)
(* JavaScript values handed to core.setOutput or carried by a rejected     *)
(* promise, and the promise of runPathsFilterAction.                       *)
(***************************************************************************)
JsBoolean(b) == [t |-> "boolean", v |-> b]
JsNumber(n) == [t |-> "number", v |-> n]
JsString(s) == [t |-> "string", v |-> s]
JsUndefined == [t |-> "undefined", v |-> ""]
JsError(err) == [t |-> "error", v |-> err]

\* error instanceof Error
instanceofError(x) == x.t = "error"

\* String(value), as the pieces of the resulting text
String(x) ==
    CASE x.t = "string" -> <<x.v>>
      [] x.t = "undefined" -> <<"undefined">>
      [] x.t = "number" -> <<ToString(x.v)>>
      [] x.t = "boolean" -> <<IF x.v THEN "true" ELSE "false">>
      [] x.t = "error" -> <<x.v.name, ": ">> \o x.v.message

Pending == [state |-> "pending", reason |-> JsUndefined]
Resolved == [state |-> "resolved", reason |-> JsUndefined]
Rejected(reason) == [state |-> "rejected", reason |-> reason]

NoInputs == [filters |-> EmptyYaml, listFiles |-> <<>>, predicateQuantifier |-> ""]

RunIdle ==
    /\ inputs = NoInputs
    /\ promise = Pending
    /\ outputs = <<>>
    /\ failed = <<>>
    /\ infos = <<>>
    /\ pc = "idle"

EscapeIdle ==
    /\ arg = <<>>
    /\ escaped = <<>>
    /\ escaper = "idle"

DetectIdle ==
    /\ context = "none"
    /\ detection = "none"
    /\ search = "none"

AuxIdle == EscapeIdle /\ DetectIdle

(***************************************************************************)
(* Spec: one Filter object, loaded and matched any number of times.        *)
(***************************************************************************)
RuleIdle ==
    /\ item = YNull
    /\ compiled = Return(<<>>)
    /\ file = NoFile
    /\ matched = FALSE
    /\ stage = "idle"

\* new Filter(undefined, filterConfig)
Init ==
    /\ rules = <<>>
    /\ filterConfig \in FilterConfigs
    /\ thrown = NoError
    /\ files = <<>>
    /\ result = <<>>
    /\ op = "new"
    /\ RuleIdle
    /\ RunIdle
    /\ AuxIdle

\* filter.load(yaml); files and result are the argument and the value of the
\* latest call, and load takes no file list and returns nothing
Load(yaml) ==
    /\ LET after == load(rules, yaml)
       IN  /\ rules' = after.rules
           /\ thrown' = after.error
    /\ files' = <<>>
    /\ result' = <<>>
    /\ op' = "load"
    /\ UNCHANGED <<filterConfig, ruleVars, runVars, auxVars>>

\* a match that clears the rule of every filter that matched a file
MatchConsuming(fs) ==
    /\ files' = fs
    /\ result' = match(fs)
    /\ rules' = [i \in 1..Len(rules) |->
                   IF filter(fs, rules[i][2]) # <<>>
                   THEN <<rules[i][1], <<>>>> ELSE rules[i]]
    /\ thrown' = NoError
    /\ op' = "match"
    /\ UNCHANGED <<filterConfig, ruleVars, runVars, auxVars>>

\* filter.match(fs)
Match(fs) ==
    /\ files' = fs
    /\ result' = match(fs)
    /\ thrown' = NoError
    /\ op' = "match"
    /\ UNCHANGED <<rules, filterConfig, ruleVars, runVars, auxVars>>

Next ==
    \/ \E yaml \in Yamls : Load(yaml)
    \/ \E fs \in FileLists : Match(fs)

Spec == Init /\ [][Next]_vars

(***************************************************************************)
(* SpecRule: parseFilterItemYaml on one rule item, then isMatch on one     *)
(* file against the compiled predicates.                                   *)
(***************************************************************************)
InitRule ==
    /\ rules = <<>>
    /\ filterConfig \in FilterConfigs
    /\ thrown = NoError
    /\ files = <<>>
    /\ result = <<>>
    /\ op = "new"
    /\ item \in RuleItems
    /\ compiled = Return(<<>>)
    /\ file = NoFile
    /\ matched = FALSE
    /\ stage = "item"
    /\ RunIdle
    /\ AuxIdle

\* this.parseFilterItemYaml(item)
Parse ==
    /\ stage = "item"
    /\ compiled' = parseFilterItemYaml(item)
    /\ stage' = IF Threw(compiled') THEN "thrown" ELSE "parsed"
    /\ UNCHANGED <<filterConfig, filterVars, item, file, matched, runVars, auxVars>>

\* this.isMatch(f, patterns)
Test(f) ==
    /\ stage = "parsed"
    /\ file' = f
    /\ matched' = isMatch(f, compiled.v)
    /\ stage' = "tested"
    /\ UNCHANGED <<filterConfig, filterVars, item, compiled, runVars, auxVars>>

NextRule ==
    \/ Parse
    \/ \E f \in File : Test(f)

SpecRule == InitRule /\ [][NextRule]_vars

(***************************************************************************)
(* The action (src/lib/action.ts): input validation, change detection and  *)
(* the export of the match result to the outputs of the workflow step.     *)
(***************************************************************************)
None == <<"n","o","n","e">>
Csv == <<"c","s","v">>
Shell == <<"s","h","e","l","l">>
Json == <<"j","s","o","n">>
Escape == <<"e","s","c","a","p","e">>

ExportFormats == {None, Csv, Shell, Json, Escape}

\* a validation that accepts every value
isExportFormatAny(value) == TRUE

isExportFormat(value) == value \in ExportFormats

isPredicateQuantifier(x) == x \in PredicateQuantifier

\* core.getInput('list-files').toLowerCase() || 'none'
listFilesOf(input) ==
    IF toLowerCase(input) = <<>> THEN None ELSE toLowerCase(input)

\* core.getInput('predicate-quantifier') || PredicateQuantifier.SOME
predicateQuantifierOf(input) == IF input = "" THEN "some" ELSE input

ListFilesInvalidMessage(listFiles) ==
    <<"Input parameter 'list-files' is set to invalid value '">>
        \o listFiles \o <<"'">>

PredicateQuantifierInvalidError(predicateQuantifier) ==
    [name |-> "Error",
     message |-> <<"Input parameter 'predicate-quantifier' is set to invalid value ",
                   "'", predicateQuantifier, "'. Valid values: ", "every, some">>]

\* Array.prototype.join on strings
RECURSIVE join(_, _)
join(arr, separator) ==
    IF arr = <<>> THEN ""
    ELSE IF Len(arr) = 1 THEN arr[1]
    ELSE arr[1] \o separator \o join(Tail(arr), separator)

\* JSON.stringify of an array of strings that need no escape
JSONstringify(arr) ==
    "[" \o join([i \in 1..Len(arr) |-> "\"" \o arr[i] \o "\""], ",") \o "]"

\* serializeExport for the formats json and none, the ones ListFilesInputs
\* leads to; the branches csv, escape and shell are not reached
serializeExport(fs, format) ==
    LET fileNames == [i \in 1..Len(fs) |-> fs[i].filename]
    IN  IF format = Json THEN JSONstringify(fileNames) ELSE ""

\* core.setOutput(name, value)
setOutput(name, value) == [name |-> name, value |-> value]

\* the core.info calls of one pass of the loop of exportResults
MatchingFilesInfo(fs) ==
    IF Len(fs) > 0
    THEN << <<"Matching files:">> >>
            \o [i \in 1..Len(fs) |->
                  <<fs[i].filename, " [">> \o fs[i].status \o <<"]">>]
    ELSE << <<"Matching files: none">> >>

\* outputs with the file list left out for a filter that matched nothing
FilterOutputsOnlyMatched(key, fs, format) ==
    <<setOutput(key, JsBoolean(Len(fs) > 0)),
      setOutput(key \o "_count", JsNumber(Len(fs)))>>
        \o (IF format # None /\ Len(fs) > 0
            THEN <<setOutput(key \o "_files", JsString(serializeExport(fs, format)))>>
            ELSE <<>>)

\* the core.setOutput calls of one pass of the loop of exportResults
FilterOutputs(key, fs, format) ==
    <<setOutput(key, JsBoolean(Len(fs) > 0)),
      setOutput(key \o "_count", JsNumber(Len(fs)))>>
        \o (IF format # None
            THEN <<setOutput(key \o "_files", JsString(serializeExport(fs, format)))>>
            ELSE <<>>)

\* a loop that pushes every key to changes
RECURSIVE exportLoopAllNames(_, _, _)
exportLoopAllNames(results, format, n) ==
    IF n > Len(results)
    THEN [changes |-> <<>>, outputs |-> <<>>, infos |-> <<>>]
    ELSE LET key == results[n][1]
             fs == results[n][2]
             rest == exportLoopAllNames(results, format, n + 1)
         IN  [changes |-> <<key>> \o rest.changes,
              outputs |-> FilterOutputs(key, fs, format) \o rest.outputs,
              infos |-> MatchingFilesInfo(fs) \o rest.infos]

\* the loop of exportResults over Object.entries(results), from entry n on
RECURSIVE exportLoop(_, _, _)
exportLoop(results, format, n) ==
    IF n > Len(results)
    THEN [changes |-> <<>>, outputs |-> <<>>, infos |-> <<>>]
    ELSE LET key == results[n][1]
             fs == results[n][2]
             rest == exportLoop(results, format, n + 1)
         IN  [changes |-> (IF Len(fs) > 0 THEN <<key>> ELSE <<>>) \o rest.changes,
              outputs |-> FilterOutputs(key, fs, format) \o rest.outputs,
              infos |-> MatchingFilesInfo(fs) \o rest.infos]

CannotSetChanges ==
    <<"Cannot set changes output variable - name already used by filter output">>

\* an export that writes the aggregate whatever the filters are named
exportResultsAlways(results, format) ==
    LET loop == exportLoop(results, format, 1)
        changesJson == JSONstringify(loop.changes)
    IN  [outputs |-> Append(loop.outputs,
                            setOutput("changes", JsString(changesJson))),
         infos |-> << <<"Results:">> >> \o loop.infos
                       \o << <<"Changes output set to ", changesJson>> >>]

\* exportResults(results, format): the calls of core.setOutput and core.info
exportResults(results, format) ==
    LET loop == exportLoop(results, format, 1)
        changesJson == JSONstringify(loop.changes)
    IN  IF ~HasKey(results, "changes")
        THEN [outputs |-> Append(loop.outputs,
                                 setOutput("changes", JsString(changesJson))),
              infos |-> << <<"Results:">> >> \o loop.infos
                            \o << <<"Changes output set to ", changesJson>> >>]
        ELSE [outputs |-> loop.outputs,
              infos |-> << <<"Results:">> >> \o loop.infos
                            \o <<CannotSetChanges>>]

(***************************************************************************)
(* Change detection: the pull-request files of the GitHub API and the      *)
(* output of git diff --name-status -z.                                    *)
(***************************************************************************)
ApiAdded == <<"a","d","d","e","d">>
ApiRemoved == <<"r","e","m","o","v","e","d">>
ApiRenamed == <<"r","e","n","a","m","e","d">>
ApiChanged == <<"c","h","a","n","g","e","d">>

\* one pass of the loop of getChangedFilesFromApi over the rows of a response
rowFiles(row) ==
    IF row.status = ApiRenamed
    THEN <<[filename |-> row.filename, status |-> Added],
           [filename |-> (IF row.previous_filename = JsUndefined
                          THEN "" ELSE row.previous_filename.v),
            status |-> Deleted]>>
    ELSE <<[filename |-> row.filename,
            status |-> IF row.status = ApiRemoved THEN Deleted ELSE row.status]>>

\* getChangedFilesFromApi, given the rows of all the pages it received
RECURSIVE getChangedFilesFromApi(_)
getChangedFilesFromApi(rows) ==
    IF rows = <<>> THEN <<>>
    ELSE rowFiles(Head(rows)) \o getChangedFilesFromApi(Tail(rows))

ApiFailedError ==
    [name |-> "Error",
     message |-> <<"Fetching list of changed files from GitHub API failed with error code ",
                   "500">>]

statusMap ==
    [A |-> Added, C |-> Copied, D |-> Deleted,
     M |-> Modified, R |-> Renamed, U |-> Unmerged]

\* the loop of parseGitDiffOutput, from token i (counted from 1) on
RECURSIVE parseLoop(_, _)
parseLoop(tokens, i) ==
    IF ~(i + 1 <= Len(tokens)) THEN <<>>
    ELSE LET statusKey == tokens[i]
             filename == tokens[i + 1]
         IN  (IF statusKey \in DOMAIN statusMap
              THEN <<[status |-> statusMap[statusKey], filename |-> filename]>>
              ELSE <<>>)
                 \o parseLoop(tokens, i + 2)

\* parseGitDiffOutput; output is given as output.split('\u0000')
parseGitDiffOutput(output) ==
    parseLoop(SelectSeq(output, LAMBDA s : s # ""), 1)

(***************************************************************************)
(* SpecRun: one run of the action.  main calls runPathsFilterAction, which *)
(* runs up to its await of getChangedFiles; change detection settles;      *)
(* runPathsFilterAction matches and exports; main handles the outcome.     *)
(***************************************************************************)
KeyChanged == <<"c","h","a","n","g","e","d">>

\* the rule items of the documents of a run
RunItems ==
    {YString("src/**"), StatusMap(KeyChanged, YString("**"))}

\* the filter names of the documents of a run
RunNames == {"src", "1", "changes"}

RunEntries(n) ==
    {e \in [1..n -> RunNames \X RunItems] :
        \A i, j \in 1..n : i # j => e[i][1] # e[j][1]}

\* documents whose root is not a mapping: scalars and sequences
RootValues ==
    {YString("src/**"), YNumber, YBoolean, YNull,
     YArray(<<>>),
     YArray(<<YString("src/**")>>),
     YArray(<<YString("b/**"), YNumber>>)}

RunYamls ==
    RootValues \cup UNION {{YMapping(e) : e \in RunEntries(n)} : n \in 1..MaxEntries}

\* the values of the input list-files
ListFilesInputs ==
    {<<>>, <<"J","S","O","N">>, <<"X","m","l">>}

\* the values of the input predicate-quantifier
QuantifierInputs == {"", "every", "all"}

RunInputs ==
    [filters : RunYamls, listFiles : ListFilesInputs,
     predicateQuantifier : QuantifierInputs]

\* rows of the pull-request files endpoint
ApiRows ==
    {[filename |-> "src/a.ts", status |-> ApiAdded, previous_filename |-> JsUndefined],
     [filename |-> "lib/a.ts", status |-> ApiRemoved, previous_filename |-> JsUndefined],
     [filename |-> "b/y.md", status |-> ApiRenamed,
      previous_filename |-> JsString("lib/a.ts")],
     [filename |-> "src/a.ts", status |-> ApiChanged, previous_filename |-> JsUndefined]}

ApiResponses == UNION {[1..n -> ApiRows] : n \in 0..MaxFiles}

\* status and file name of one entry of git diff --name-status -z
DiffEntries == {<<"A", "src/a.ts">>, <<"T", "b/y.md">>}

RECURSIVE entryFields(_)
entryFields(entries) ==
    IF entries = <<>> THEN <<"">>
    ELSE Head(entries) \o entryFields(Tail(entries))

\* the NUL-separated fields of an output of git diff: every entry ends in NUL
DiffOutputs ==
    {entryFields(e) : e \in UNION {[1..n -> DiffEntries] : n \in 0..MaxFiles}}

\* the values a failed change detection rejects with
Rejections == {JsError(ApiFailedError), JsString("String error"), JsUndefined}

InitRun ==
    /\ rules = <<>>
    /\ filterConfig = "undefined"
    /\ thrown = NoError
    /\ files = <<>>
    /\ result = <<>>
    /\ op = "none"
    /\ RuleIdle
    /\ inputs \in RunInputs
    /\ promise = Pending
    /\ outputs = <<>>
    /\ failed = <<>>
    /\ infos = <<>>
    /\ pc = "main"
    /\ AuxIdle

\* main calls runPathsFilterAction, which runs up to await getChangedFiles
Run ==
    /\ pc = "main"
    /\ LET listFiles == listFilesOf(inputs.listFiles)
           predicateQuantifier == predicateQuantifierOf(inputs.predicateQuantifier)
           after == load(<<>>, inputs.filters)
       IN  IF ~isExportFormat(listFiles)
           THEN /\ failed' = Append(failed, ListFilesInvalidMessage(listFiles))
                /\ promise' = Resolved
                /\ pc' = "settled"
                /\ UNCHANGED <<rules, filterConfig, thrown, op>>
           ELSE IF ~isPredicateQuantifier(predicateQuantifier)
           THEN /\ promise' =
                      Rejected(JsError(PredicateQuantifierInvalidError(predicateQuantifier)))
                /\ pc' = "settled"
                /\ UNCHANGED <<rules, filterConfig, thrown, op, failed>>
           ELSE /\ filterConfig' = predicateQuantifier
                /\ rules' = after.rules
                /\ thrown' = after.error
                /\ op' = "new"
                /\ IF after.error # NoError
                   THEN /\ promise' = Rejected(JsError(after.error))
                        /\ pc' = "settled"
                   ELSE /\ promise' = Pending
                        /\ pc' = "awaiting"
                /\ UNCHANGED failed
    /\ UNCHANGED <<files, result, ruleVars, inputs, outputs, infos, auxVars>>

\* getChangedFiles resolves with fs: runPathsFilterAction matches and exports
Continue(fs) ==
    /\ pc = "awaiting"
    /\ files' = fs
    /\ result' = match(fs)
    /\ op' = "match"
    /\ LET exported == exportResults(result', listFilesOf(inputs.listFiles))
       IN  /\ outputs' = outputs \o exported.outputs
           /\ infos' = Append(infos, <<"Detected ", ToString(Len(fs)), " changed files">>)
                          \o exported.infos
    /\ promise' = Resolved
    /\ pc' = "settled"
    /\ UNCHANGED <<rules, filterConfig, thrown, ruleVars, inputs, failed, auxVars>>

\* change detection through the GitHub API
DetectedFromApi(rows) == Continue(getChangedFilesFromApi(rows))

\* change detection through git diff
DetectedFromGit(output) == Continue(parseGitDiffOutput(output))

\* getChangedFiles rejects, and so does runPathsFilterAction
DetectionFailed(reason) ==
    /\ pc = "awaiting"
    /\ promise' = Rejected(reason)
    /\ pc' = "settled"
    /\ UNCHANGED <<filterConfig, filterVars, ruleVars, inputs, outputs, failed, infos, auxVars>>

\* a catch clause that reports String(error) for every value
SettleAlwaysString ==
    /\ pc = "settled"
    /\ IF promise.state = "rejected"
       THEN failed' = Append(failed, String(promise.reason))
       ELSE UNCHANGED failed
    /\ pc' = "done"
    /\ UNCHANGED <<filterConfig, filterVars, ruleVars, inputs, promise, outputs, infos, auxVars>>

\* main after await runPathsFilterAction(): the catch clause
Settle ==
    /\ pc = "settled"
    /\ IF promise.state = "rejected"
       THEN LET error == promise.reason
                message == IF instanceofError(error)
                           THEN error.v.message ELSE String(error)
            IN  failed' = Append(failed, message)
       ELSE UNCHANGED failed
    /\ pc' = "done"
    /\ UNCHANGED <<filterConfig, filterVars, ruleVars, inputs, promise, outputs, infos, auxVars>>

NextRun ==
    \/ Run
    \/ \E rows \in ApiResponses : DetectedFromApi(rows)
    \/ \E output \in DiffOutputs : DetectedFromGit(output)
    \/ \E reason \in Rejections : DetectionFailed(reason)
    \/ Settle

SpecRun == InitRun /\ [][NextRun]_vars

(***************************************************************************)
(* The escape functions of src/lib/list-format.  A string is a sequence    *)
(* of one-character strings.                                               *)
(***************************************************************************)
Digits == <<"0","1","2","3","4","5","6","7","8","9">>

\* [a-zA-Z0-9._+:@%/-]
CsvSafe ==
    {LowerCase[i] : i \in 1..Len(LowerCase)}
        \cup {UpperCase[i] : i \in 1..Len(UpperCase)}
        \cup {Digits[i] : i \in 1..Len(Digits)}
        \cup {".", "_", "+", ":", "@", "%", "/", "-"}

\* [a-zA-Z0-9,._+:@%/-]
ShellSafe == CsvSafe \cup {","}

\* \s of a regular expression
RegexSpace == {" ", "\t", "\n", "\r", "\f"}

\* [a-zA-Z0-9,._+:@%/'\s-]
QuotableSafe == ShellSafe \cup {"'"} \cup RegexSpace

\* the characters at which ^ and $ match under the flag m
LineTerminators == {"\n", "\r"}

\* /^[class]+$/m.test(s): under the flag m, ^ matches at the start of s and
\* after a line terminator, $ at the end of s and before a line terminator
TestLineOf(class, s) ==
    \E i \in 1..Len(s) : \E j \in i..Len(s) :
        /\ i = 1 \/ s[i - 1] \in LineTerminators
        /\ j = Len(s) \/ s[j + 1] \in LineTerminators
        /\ \A k \in i..j : s[k] \in class

\* String.prototype.split(separator), separator one character
RECURSIVE splitAt(_, _)
splitAt(s, separator) ==
    IF s = <<>> THEN << <<>> >>
    ELSE LET rest == splitAt(Tail(s), separator)
         IN  IF Head(s) = separator
             THEN << <<>> >> \o rest
             ELSE << <<Head(s)>> \o rest[1] >> \o Tail(rest)

\* Array.prototype.join on sequences of characters
RECURSIVE joinWith(_, _)
joinWith(arr, separator) ==
    IF arr = <<>> THEN <<>>
    ELSE IF Len(arr) = 1 THEN arr[1]
    ELSE arr[1] \o separator \o joinWith(Tail(arr), separator)

\* value.replace(/([^a-zA-Z0-9,._+:@%/-])/gm, '\\$1') with . in place of the
\* negated class: a line terminator is left alone
RECURSIVE backslashEscapeDot(_)
backslashEscapeDot(v) ==
    IF v = <<>> THEN <<>>
    ELSE (IF Head(v) \in ShellSafe \cup LineTerminators
          THEN <<Head(v)>> ELSE <<"\\", Head(v)>>)
             \o backslashEscapeDot(Tail(v))

\* backslashEscape: value.replace(/([^a-zA-Z0-9,._+:@%/-])/gm, '\\$1')
RECURSIVE backslashEscape(_)
backslashEscape(v) ==
    IF v = <<>> THEN <<>>
    ELSE (IF Head(v) \in ShellSafe THEN <<Head(v)>> ELSE <<"\\", Head(v)>>)
             \o backslashEscape(Tail(v))

\* value.replace(/"/g, '""')
RECURSIVE doubleQuotes(_)
doubleQuotes(v) ==
    IF v = <<>> THEN <<>>
    ELSE (IF Head(v) = "\"" THEN <<"\"", "\"">> ELSE <<Head(v)>>)
             \o doubleQuotes(Tail(v))

\* csvEscape
csvEscape(v) ==
    IF v = <<>> THEN v
    ELSE IF TestLineOf(CsvSafe, v) THEN v
    ELSE <<"\"">> \o doubleQuotes(v) \o <<"\"">>

\* shellEscape
RECURSIVE shellEscape(_)
shellEscape(v) ==
    IF v = <<>> THEN v
    ELSE IF TestLineOf(ShellSafe, v) THEN v
    ELSE IF \E k \in 1..Len(v) : v[k] = "'"
    THEN IF TestLineOf(QuotableSafe, v)
         THEN <<"\"">> \o v \o <<"\"">>
         ELSE LET pieces == splitAt(v, "'")
              IN  joinWith([i \in 1..Len(pieces) |-> shellEscape(pieces[i])],
                           <<"\\", "'">>)
    ELSE <<"'">> \o v \o <<"'">>

(***************************************************************************)
(* SpecEscape: one call of one escape function on one string.              *)
(***************************************************************************)
\* a safe character, the comma, and unsafe characters of each kind
EscapeChars == {"a", ",", " ", "'", "\"", "\n", "$"}

EscapeValues == UNION {[1..n -> EscapeChars] : n \in 0..MaxLen}

InitEscape ==
    /\ rules = <<>>
    /\ filterConfig = "undefined"
    /\ thrown = NoError
    /\ files = <<>>
    /\ result = <<>>
    /\ op = "none"
    /\ RuleIdle
    /\ RunIdle
    /\ DetectIdle
    /\ arg \in EscapeValues
    /\ escaped = <<>>
    /\ escaper = "none"

EscapeFrame ==
    UNCHANGED <<filterConfig, filterVars, ruleVars, runVars, detectVars, arg>>

CallShellEscape ==
    /\ escaper = "none"
    /\ escaped' = shellEscape(arg)
    /\ escaper' = "shellEscape"
    /\ EscapeFrame

CallCsvEscape ==
    /\ escaper = "none"
    /\ escaped' = csvEscape(arg)
    /\ escaper' = "csvEscape"
    /\ EscapeFrame

CallBackslashEscape ==
    /\ escaper = "none"
    /\ escaped' = backslashEscape(arg)
    /\ escaper' = "backslashEscape"
    /\ EscapeFrame

NextEscape ==
    \/ CallShellEscape
    \/ CallCsvEscape
    \/ CallBackslashEscape

SpecEscape == InitEscape /\ [][NextEscape]_vars

(***************************************************************************)
(* SpecMergeBase: one call of getChangesSinceMergeBase (src/lib/git.ts).   *)
(* The repository is the environment: search.baseRef and search.headRef    *)
(* say whether getLocalRef finds the ref, search.mergeBase whether          *)
(* `git merge-base` finds a common ancestor, search.count is what            *)
(* `git rev-list --count --all` reports.  A fetch never removes a ref, a    *)
(* merge base or a commit.                                                  *)
(***************************************************************************)
InitialFetchDepths == {1, 10}

\* what a ref or a merge base can be after a fetch
Later(found) == IF found THEN {TRUE} ELSE BOOLEAN

\* what getCommitCount can report after a fetch
LaterCount(count) == count..MaxCommits

Fetch(kind, depth) == [kind |-> kind, depth |-> depth]

\* the local function hasMergeBase
hasMergeBase(s) == s.baseRef /\ s.headRef /\ s.mergeBase

NoMergeBaseWarning ==
    "No merge base found - change detection will use direct <commit>..<commit> comparison"

InitMergeBase ==
    /\ rules = <<>>
    /\ filterConfig = "undefined"
    /\ thrown = NoError
    /\ files = <<>>
    /\ result = <<>>
    /\ op = "none"
    /\ RuleIdle
    /\ RunIdle
    /\ EscapeIdle
    /\ context = "none"
    /\ detection = "none"
    /\ \E b \in BOOLEAN, h \in BOOLEAN, m \in BOOLEAN :
       \E c \in 0..MaxCommits, d \in InitialFetchDepths :
          search = [pc |-> "start", baseRef |-> b, headRef |-> h,
                    mergeBase |-> m, count |-> c,
                    initialFetchDepth |-> d, depth |-> d,
                    lastCommitCount |-> 0, noMergeBase |-> FALSE,
                    fetches |-> <<>>, diffs |-> <<>>,
                    warnings |-> <<>>, thrown |-> ""]

MergeBaseFrame ==
    UNCHANGED <<filterConfig, filterVars, ruleVars, runVars, escapeVars,
                context, detection>>

\* getChangesSinceMergeBase up to the while loop: resolve the refs, and when
\* no merge base is at hand fetch initialFetchDepth commits, resolve the refs
\* again, fetch the tags when a ref is still missing, and read the commit count
Resolve ==
    /\ search.pc = "start"
    /\ IF hasMergeBase(search)
       THEN search' = [search EXCEPT !.pc = "diff"]
       ELSE \E c1 \in LaterCount(search.count) :
            \E m1 \in Later(search.mergeBase) :
            \E b1 \in Later(search.baseRef), h1 \in Later(search.headRef) :
               LET first == Fetch("depth", search.initialFetchDepth)
               IN  IF search.baseRef /\ search.headRef
                   THEN search' = [search EXCEPT
                            !.pc = "loop", !.count = c1, !.mergeBase = m1,
                            !.fetches = <<first>>,
                            !.depth = search.initialFetchDepth,
                            !.lastCommitCount = c1]
                   ELSE IF b1 /\ h1
                   THEN search' = [search EXCEPT
                            !.pc = "loop", !.count = c1, !.mergeBase = m1,
                            !.baseRef = b1, !.headRef = h1,
                            !.fetches = <<first>>,
                            !.depth = search.initialFetchDepth,
                            !.lastCommitCount = c1]
                   ELSE \E c2 \in LaterCount(c1), m2 \in Later(m1) :
                        \E b2 \in Later(b1), h2 \in Later(h1) :
                           LET fetched == [search EXCEPT
                                   !.count = c2, !.mergeBase = m2,
                                   !.baseRef = b2, !.headRef = h2,
                                   !.fetches = <<first, Fetch("tags", 1)>>]
                           IN  IF ~b2
                               THEN search' = [fetched EXCEPT
                                        !.pc = "done",
                                        !.thrown = "Could not determine what is base"]
                               ELSE IF ~h2
                               THEN search' = [fetched EXCEPT
                                        !.pc = "done",
                                        !.thrown = "Could not determine what is head"]
                               ELSE search' = [fetched EXCEPT
                                        !.pc = "loop",
                                        !.depth = search.initialFetchDepth,
                                        !.lastCommitCount = c2]
    /\ MergeBaseFrame

\* one pass of the while loop: double the depth, deepen, read the commit
\* count; when no commit came, fetch the full history, look for the merge
\* base one last time and leave the loop
Deepen ==
    /\ search.pc = "loop"
    /\ ~hasMergeBase(search)
    \* depth = Math.min(depth * 2, Number.MAX_SAFE_INTEGER): the loop makes at
    \* most MaxCommits + 1 passes, so the minimum is always depth * 2 here
    /\ LET depth == search.depth * 2
       IN  \E c \in LaterCount(search.count), m \in Later(search.mergeBase) :
              IF c = search.lastCommitCount
              THEN \E full \in Later(m) :
                      search' = [search EXCEPT
                          !.pc = "diff", !.depth = depth, !.count = c,
                          !.mergeBase = full,
                          !.fetches = @ \o <<Fetch("deepen", depth),
                                            Fetch("full", 0)>>,
                          !.noMergeBase = ~full]
              ELSE search' = [search EXCEPT
                       !.depth = depth, !.count = c, !.mergeBase = m,
                       !.fetches = Append(@, Fetch("deepen", depth)),
                       !.lastCommitCount = c]
    /\ MergeBaseFrame

\* the while condition is false: a merge base exists
ExitLoop ==
    /\ search.pc = "loop"
    /\ hasMergeBase(search)
    /\ search' = [search EXCEPT !.pc = "diff"]
    /\ MergeBaseFrame

\* the diff with three dots whatever noMergeBase says
DiffThreeDots ==
    /\ search.pc = "diff"
    /\ search' = [search EXCEPT !.pc = "done", !.diffs = Append(@, "...")]
    /\ MergeBaseFrame

\* the end of getChangesSinceMergeBase: the diff argument, the warning, and
\* the one `git diff`
Diff ==
    /\ search.pc = "diff"
    /\ search' = [search EXCEPT
           !.pc = "done",
           !.warnings = IF search.noMergeBase
                        THEN Append(@, NoMergeBaseWarning) ELSE @,
           !.diffs = Append(@, IF search.noMergeBase THEN ".." ELSE "...")]
    /\ MergeBaseFrame

\* a git command without ignoreReturnCode exits with a failure: getExecOutput
\* rejects and getChangesSinceMergeBase throws
GitFails ==
    /\ search.pc \in {"start", "loop", "diff"}
    /\ search' = [search EXCEPT !.pc = "done", !.thrown = "git failed"]
    /\ MergeBaseFrame

NextMergeBase ==
    \/ Resolve
    \/ Deepen
    \/ ExitLoop
    \/ Diff
    \/ GitFails

SpecMergeBase == InitMergeBase /\ [][NextMergeBase]_vars

\* the awaited calls of getChangesSinceMergeBase always come back: the
\* function takes its next step as long as it has one
SpecMergeBaseFair == SpecMergeBase /\ WF_vars(NextMergeBase)

(***************************************************************************)
(* SpecDetect: the choice of the detection method by getChangedFiles and   *)
(* getChangedFilesFromGit (src/lib/action.ts).  Refs, SHAs and inputs are  *)
(* sequences of characters; a value of the event payload is a JS value     *)
(* [t, v].                                                                 *)
(***************************************************************************)
JsNull == [t |-> "null", v |-> ""]
NaN == [t |-> "NaN", v |-> 0]

\* the value is not one of undefined, null, '', 0, NaN
Truthy(x) ==
    CASE x.t \in {"undefined", "null", "NaN"} -> FALSE
      [] x.t = "string" -> x.v # <<>>
      [] x.t = "number" -> x.v # 0
      [] OTHER -> TRUE

\* a || b
Or(a, b) == IF Truthy(a) THEN a ELSE b

\* a ?? b
Nullish(a, b) == IF a.t \in {"undefined", "null"} THEN b ELSE a

\* 'head' in place of 'HEAD'
HEADLowerCase == <<"h", "e", "a", "d">>

\* git.HEAD
HEAD == <<"H", "E", "A", "D">>

\* git.NULL_SHA
NULL_SHA == [i \in 1..40 |-> "0"]

startsWith(s, prefix) ==
    /\ Len(s) >= Len(prefix)
    /\ SubSeq(s, 1, Len(prefix)) = prefix

slice(s, start) == SubSeq(s, start + 1, Len(s))

\* git.getShortName
getShortName(ref) ==
    LET heads == <<"r","e","f","s","/","h","e","a","d","s","/">>
        tags == <<"r","e","f","s","/","t","a","g","s","/">>
    IN  IF ~Truthy(ref) THEN JsUndefined
        ELSE IF startsWith(ref.v, heads) THEN JsString(slice(ref.v, Len(heads)))
        ELSE IF startsWith(ref.v, tags) THEN JsString(slice(ref.v, Len(tags)))
        ELSE ref

\* /^[0-9]{40}$/ in place of /^[a-z0-9]{40}$/
isGitShaDigits(ref) ==
    /\ Len(ref) = 40
    /\ \A k \in 1..40 : \E i \in 1..Len(Digits) : ref[k] = Digits[i]

\* git.isGitSha: /^[a-z0-9]{40}$/
isGitSha(ref) ==
    /\ Len(ref) = 40
    /\ \A k \in 1..40 :
          \/ \E i \in 1..Len(LowerCase) : ref[k] = LowerCase[i]
          \/ \E i \in 1..Len(Digits) : ref[k] = Digits[i]

\* the value of a decimal digit
DigitValue(c) == (CHOOSE i \in 1..Len(Digits) : Digits[i] = c) - 1

\* the number written by the decimal digits at the start of s, after the
\* digits read so far
RECURSIVE parseDigits(_, _)
parseDigits(s, read) ==
    IF s = <<>> \/ ~(\E i \in 1..Len(Digits) : Digits[i] = Head(s))
    THEN read
    ELSE parseDigits(Tail(s), read * 10 + DigitValue(Head(s)))

\* parseInt(s): leading white space is skipped, a sign is read, then decimal
\* digits up to the first other character; NaN when there is no digit
parseInt(s) ==
    LET t == trimStart(s)
        negative == t # <<>> /\ Head(t) = "-"
        digits == IF t # <<>> /\ Head(t) \in {"-", "+"} THEN Tail(t) ELSE t
    IN  IF digits = <<>> \/ ~(\E i \in 1..Len(Digits) : Digits[i] = Head(digits))
        THEN NaN
        ELSE JsNumber(IF negative THEN 0 - parseDigits(digits, 0)
                                  ELSE parseDigits(digits, 0))

\* parseInt(core.getInput('initial-fetch-depth', { required: false })) || 10
initialFetchDepthOf(input) == Or(parseInt(input), JsNumber(10)).v

prEvents ==
    <<"pull_request", "pull_request_review", "pull_request_review_comment",
      "pull_request_target">>

RefIgnoredWarning == "'ref' input parameter is ignored when 'base' is set to HEAD"
NoBaseBranchError == "Unable to determine base branch for comparison"

\* what a detection did: the method it called with its arguments, the
\* core.warning and core.info lines before the call, and the error thrown
Called(fn, args, warnings, logged) ==
    [fn |-> fn, args |-> args, warnings |-> warnings, infos |-> logged,
     thrown |-> ""]

Failing(message, warnings, logged) ==
    [fn |-> "none", args |-> <<>>, warnings |-> warnings, infos |-> logged,
     thrown |-> message]

NotDetected == Called("idle", <<>>, <<>>, <<>>)

\* the warning of a head that is not the checked-out ref
notCheckedOut(resolvedHead, currentRef) ==
    IF resolvedHead # currentRef
    THEN <<"Ref is not checked out - results might be incorrect!">>
    ELSE <<>>

getChangedFilesFromGit(c, base, head, initialFetchDepth) ==
    LET defaultBranch == c.defaultBranch
        beforeSha == IF c.eventName = "push" THEN c.before ELSE JsNull
        currentRef == JsString(c.currentRef)
        resolvedHead ==
            getShortName(Or(Or(JsString(head), JsString(c.contextRef)), currentRef))
        resolvedBase == getShortName(Or(JsString(base), defaultBranch))
    IN  IF ~Truthy(resolvedHead)
        THEN Failing(
  "This action requires 'head' input to be configured, 'ref' to be set in the event payload or branch/tag checked out in current git repository",
                 <<>>, <<>>)
        ELSE IF ~Truthy(resolvedBase)
        THEN Failing(
  "This action requires 'base' input to be configured or 'repository.default_branch' to be set in the event payload",
                 <<>>, <<>>)
        ELSE LET isBaseSha == isGitSha(resolvedBase.v)
                 isBaseSameAsHead == resolvedBase = resolvedHead
                 baseSha == IF isBaseSha THEN resolvedBase ELSE beforeSha
             IN  IF isBaseSha \/ isBaseSameAsHead
                 THEN IF ~Truthy(baseSha)
                      THEN Called("getChangesInLastCommit", <<>>,
            <<"'before' field is missing in event payload - changes will be detected from last commit">>
                                      \o notCheckedOut(resolvedHead, currentRef),
                                  <<>>)
                      ELSE IF baseSha = JsString(NULL_SHA)
                      THEN IF Truthy(defaultBranch) /\ resolvedBase # defaultBranch
                           THEN Called("getChangesSinceMergeBase",
                                       <<defaultBranch, resolvedHead,
                                         JsNumber(initialFetchDepth)>>,
                                       <<>>,
            <<"First push of a branch detected - changes will be detected against the default branch">>)
                           ELSE Called("listAllFilesAsAdded", <<>>,
                                       notCheckedOut(resolvedHead, currentRef),
                                       <<"Initial push detected - all files will be listed as added">>)
                      ELSE Called("getChanges", <<baseSha, resolvedHead>>,
                                  <<>>, <<"Changes will be detected between">>)
                 ELSE Called("getChangesSinceMergeBase",
                             <<resolvedBase, resolvedHead,
                               JsNumber(initialFetchDepth)>>,
                             <<>>, <<"Changes will be detected between">>)

getChangedFiles(c, token, base, ref, initialFetchDepth) ==
    IF base = HEAD
    THEN Called("getChangesOnHead", <<>>,
                IF ref # <<>> THEN <<RefIgnoredWarning>> ELSE <<>>, <<>>)
    ELSE IF \E i \in 1..Len(prEvents) : prEvents[i] = c.eventName
    THEN LET warnings ==
                 (IF ref # <<>> THEN <<RefIgnoredWarning>> ELSE <<>>)
                     \o (IF base # <<>>
                         THEN
            <<"'base' input parameter is ignored when action is triggered by pull request event">>
                         ELSE <<>>)
         IN  IF token # <<>>
             THEN Called("getChangedFilesFromApi", <<JsString(token)>>,
                         warnings, <<>>)
             ELSE IF c.eventName = "pull_request_target"
             THEN Failing(
            "'token' input parameter is required if action is triggered by 'pull_request_target' event",
                      warnings, <<>>)
             ELSE LET info ==
            "Github token is not available - changes will be detected using git diff"
                      baseSha == c.pullRequestBaseSha
                      defaultBranch == c.defaultBranch
                      currentRef == JsString(c.currentRef)
                      resolvedBase ==
                          Nullish(Nullish(JsString(base), baseSha), defaultBranch)
                  IN  IF ~Truthy(resolvedBase)
                      THEN Failing(NoBaseBranchError, warnings, <<info>>)
                      ELSE Called("getChanges", <<resolvedBase, currentRef>>,
                                  warnings, <<info>>)
    ELSE getChangedFilesFromGit(c, base, ref, initialFetchDepth)

\* refs and SHAs of the runs
Main == <<"m", "a", "i", "n">>
Dev == <<"d", "e", "v">>
RefsHeadsMain == <<"r","e","f","s","/","h","e","a","d","s","/">> \o Main
RefsHeadsDev == <<"r","e","f","s","/","h","e","a","d","s","/">> \o Dev
ShaA == [i \in 1..40 |-> "a"]
ShaB == [i \in 1..40 |-> "b"]

EventNames ==
    {prEvents[i] : i \in 1..Len(prEvents)} \cup {"push", "workflow_dispatch"}

\* the inputs token, base, ref and initial-fetch-depth as core.getInput gives
\* them ('' for an input that is not set), the event name, the fields of the
\* event payload the detection reads, GITHUB_REF, and the checked-out ref
Contexts ==
    [token : {<<>>, <<"t">>},
     base : {<<>>, <<"H", "E", "A", "D">>, Main, Dev, ShaA, NULL_SHA},
     ref : {<<>>, Dev},
     initialFetchDepth : {<<>>, <<"5", "0">>, <<"0">>},
     eventName : EventNames,
     pullRequestBaseSha : {JsUndefined, JsString(ShaA)},
     defaultBranch : {JsUndefined, JsString(Main)},
     before : {JsUndefined, JsString(ShaB), JsString(NULL_SHA)},
     contextRef : {<<>>, RefsHeadsDev, RefsHeadsMain},
     currentRef : {Dev}]

InitDetect ==
    /\ rules = <<>>
    /\ filterConfig = "undefined"
    /\ thrown = NoError
    /\ files = <<>>
    /\ result = <<>>
    /\ op = "none"
    /\ RuleIdle
    /\ RunIdle
    /\ EscapeIdle
    /\ context \in Contexts
    /\ detection = NotDetected
    /\ search = "none"

\* runPathsFilterAction reads the inputs and calls getChangedFiles
DetectChanges ==
    /\ detection = NotDetected
    /\ detection' = getChangedFiles(context, context.token, context.base,
                                    context.ref,
                                    initialFetchDepthOf(context.initialFetchDepth))
    /\ UNCHANGED <<filterConfig, filterVars, ruleVars, runVars, escapeVars,
                   context, search>>

NextDetect == DetectChanges

SpecDetect == InitDetect /\ [][NextDetect]_vars

(***************************************************************************)
(* SpecExport: one call of exportResults on the result of a match.         *)
(***************************************************************************)
ExportNames == {"a", "a_count", "a_files"}

ExportFiles ==
    {<<>>,
     <<[filename |-> "src/a.ts", status |-> Added]>>,
     <<[filename |-> "src/a.ts", status |-> Added],
       [filename |-> "b/y.md", status |-> Modified]>>}

\* results of Filter.match: filter names in the order of the document, each
\* with its matching files
ExportResults ==
    UNION {{r \in [1..n -> ExportNames \X ExportFiles] :
               \A i, j \in 1..n : i # j => r[i][1] # r[j][1]}
           : n \in 1..MaxEntries}

InitExport ==
    /\ rules = <<>>
    /\ filterConfig = "undefined"
    /\ thrown = NoError
    /\ files = <<>>
    /\ result \in ExportResults
    /\ op = "match"
    /\ RuleIdle
    /\ \E listFiles \in {<<>>, <<"j", "s", "o", "n">>} :
          inputs = [NoInputs EXCEPT !.listFiles = listFiles]
    /\ promise = Pending
    /\ outputs = <<>>
    /\ failed = <<>>
    /\ infos = <<>>
    /\ pc = "export"
    /\ AuxIdle

\* runPathsFilterAction calls exportResults(results, listFiles)
Export ==
    /\ pc = "export"
    /\ LET exported == exportResults(result, listFilesOf(inputs.listFiles))
       IN  /\ outputs' = exported.outputs
           /\ infos' = exported.infos
    /\ pc' = "exported"
    /\ UNCHANGED <<filterConfig, filterVars, ruleVars, inputs, promise, failed,
                   auxVars>>

NextExport == Export

SpecExport == InitExport /\ [][NextExport]_vars

(***************************************************************************)
(* SpecLoad: one Filter object loaded any number of times; inputs.filters  *)
(* is the document of the latest load.                                     *)
(***************************************************************************)
InitLoad ==
    /\ rules = <<>>
    /\ filterConfig \in FilterConfigs
    /\ thrown = NoError
    /\ files = <<>>
    /\ result = <<>>
    /\ op = "new"
    /\ RuleIdle
    /\ RunIdle
    /\ AuxIdle

\* filter.load(yaml)
LoadDocument(yaml) ==
    /\ LET after == load(rules, yaml)
       IN  /\ rules' = after.rules
           /\ thrown' = after.error
    /\ op' = "load"
    /\ inputs' = [inputs EXCEPT !.filters = yaml]
    /\ UNCHANGED <<filterConfig, files, result, ruleVars, promise, outputs,
                   failed, infos, pc, auxVars>>

NextLoad == \E yaml \in Yamls : LoadDocument(yaml)

SpecLoad == InitLoad /\ [][NextLoad]_vars

(***************************************************************************)
(* Properties of Filter.match (checked under Spec).                        *)
(***************************************************************************)
KeySet(obj) == {obj[i][1] : i \in 1..Len(obj)}

\* the positions of fs whose file passes the per-file test of a rule
Passing(fs, patterns) == {j \in 1..Len(fs) : isMatch(fs[j], patterns)}

\* the m-th smallest element of a set of positions
Nth(positions, m) ==
    CHOOSE j \in positions : Cardinality({x \in positions : x < j}) = m - 1

\* C1: the result of match has exactly the keys of the rule table, each once;
\* a filter that matches no file of the list is present with the empty list
C1_EveryFilterPresent ==
    op = "match" =>
        /\ KeySet(result) = KeySet(rules)
        /\ Len(result) = Len(rules)
        /\ \A k \in KeySet(rules) :
              Passing(files, Get(rules, k)) = {} => Get(result, k) = <<>>

\* two filters are declared and a non-empty file list matches neither
C1_Witness ==
    /\ op = "match"
    /\ Len(rules) = 2
    /\ files # <<>>
    /\ \A i \in 1..Len(result) : result[i][2] = <<>>

\* C5 as stated: a filter without predicates matches no file, whatever the
\* quantifier
C5_EmptyNeverMatches ==
    op = "match" =>
        \A k \in KeySet(rules) : Get(rules, k) = <<>> => Get(result, k) = <<>>

\* C5 amended: a filter without predicates matches no file unless the
\* quantifier is EVERY, and under EVERY it matches every file of the list
C5_EmptyFollowsQuantifier ==
    op = "match" =>
        \A k \in KeySet(rules) :
            Get(rules, k) = <<>> =>
                Get(result, k) = IF filterConfig = "every" THEN files ELSE <<>>

\* under EVERY a filter declared as an empty list received a non-empty list
C5_Witness ==
    /\ op = "match"
    /\ filterConfig = "every"
    /\ files # <<>>
    /\ \E k \in KeySet(rules) : Get(rules, k) = <<>> /\ Get(result, k) = files

\* C6: each result list is the subsequence of the file list made of the files
\* that pass the filter's per-file test, in the order of the file list
C6_OrderedSubsequence ==
    op = "match" =>
        \A k \in KeySet(rules) :
            LET passing == Passing(files, Get(rules, k))
                list == Get(result, k)
            IN  /\ Len(list) = Cardinality(passing)
                /\ \A m \in 1..Len(list) : list[m] = files[Nth(passing, m)]

\* two files matched in an order that is not the alphabetical one, and another
\* filter of the same run dropped one of them
C6_Witness ==
    /\ op = "match"
    /\ files = <<[filename |-> "src/a.ts", status |-> Added],
                 [filename |-> "lib/a.ts", status |-> Deleted]>>
    /\ \E k \in KeySet(rules) : Get(result, k) = files
    /\ \E k \in KeySet(rules) : Len(Get(result, k)) = 1

(***************************************************************************)
(* Properties of parseFilterItemYaml and isMatch (checked under SpecRule). *)
(***************************************************************************)
Range(seq) == {seq[i] : i \in 1..Len(seq)}

Compiled == stage \in {"parsed", "tested"}

\* the file's status meets the predicate's status constraint
StatusAllowed(p, f) == ~p.hasStatus \/ f.status \in Range(p.status)

\* the predicate's path test accepts the file's path
PathAccepted(p, f) == \E g \in Range(p.isMatch) : f.filename \in GlobLanguage(g)

Satisfies(f, p) == StatusAllowed(p, f) /\ PathAccepted(p, f)

\* C2: unless the quantifier is EVERY, a file matches iff one single predicate
\* has its status constraint and its path test both satisfied by the file
C2_SomeNeedsOnePredicate ==
    (stage = "tested" /\ filterConfig # "every") =>
        (matched <=> \E p \in Range(compiled.v) : Satisfies(file, p))

\* a Filter without FilterConfig rejected a file whose path one predicate
\* accepts and whose status another predicate accepts
C2_Witness ==
    /\ stage = "tested"
    /\ filterConfig = "undefined"
    /\ ~matched
    /\ \E p, q \in Range(compiled.v) :
          /\ PathAccepted(p, file) /\ ~StatusAllowed(p, file)
          /\ q.hasStatus /\ StatusAllowed(q, file) /\ ~PathAccepted(q, file)

\* C3: under EVERY a file matches iff every predicate is satisfied by it; for
\* ["**/*.ts", "src/**"] src/a.ts matches and lib/a.ts does not
C3_EveryNeedsAllPredicates ==
    (stage = "tested" /\ filterConfig = "every") =>
        /\ matched <=> \A p \in Range(compiled.v) : Satisfies(file, p)
        /\ (item = StrictRule /\ file.filename = "src/a.ts") => matched
        /\ (item = StrictRule /\ file.filename = "lib/a.ts") => ~matched

\* under EVERY the rule ["**/*.ts", "src/**"] rejected lib/a.ts
C3_Witness ==
    /\ stage = "tested"
    /\ filterConfig = "every"
    /\ item = StrictRule
    /\ file.filename = "lib/a.ts"
    /\ ~matched

\* C4 as stated: a file satisfies one predicate iff the status constraint is
\* undefined or empty or holds the file's status, and the path test accepts
\* the path (a rule of one predicate matches iff that predicate is satisfied)
C4_EmptyStatusAcceptsAny ==
    (stage = "tested" /\ Len(compiled.v) = 1) =>
        (matched <=>
            /\ \/ ~compiled.v[1].hasStatus
               \/ compiled.v[1].status = <<>>
               \/ file.status \in Range(compiled.v[1].status)
            /\ PathAccepted(compiled.v[1], file))

\* a status mapping of one entry whose value is a list of glob strings
IsStatusList(it) ==
    /\ it.t = "object"
    /\ Len(it.v) = 1
    /\ it.v[1][2].t = "array"
    /\ \A i \in 1..Len(it.v[1][2].v) : it.v[1][2].v[i].t = "string"

\* C7 as stated: a status mapping with a list of k globs compiles to k
\* predicates, one per glob, with the same status set; under EVERY a file
\* matches only with an allowed status and a path that all k globs accept
C7_OnePredicatePerGlob ==
    (Compiled /\ IsStatusList(item)) =>
        LET globs == item.v[1][2].v
        IN  /\ Len(compiled.v) = Len(globs)
            /\ \A i \in 1..Len(compiled.v) :
                  /\ compiled.v[i].isMatch = <<globs[i].v>>
                  /\ compiled.v[i].status = compiled.v[1].status
            /\ (stage = "tested" /\ filterConfig = "every" /\ matched) =>
                  \A i \in 1..Len(globs) : file.filename \in GlobLanguage(globs[i].v)

\* the rule items of a nested rule item that are no lists, left to right
RECURSIVE LeavesOf(_)
LeavesOf(it) ==
    IF it.t # "array" THEN <<it>>
    ELSE IF it.v = <<>> THEN <<>>
    ELSE LeavesOf(Head(it.v)) \o LeavesOf(YArray(Tail(it.v)))

RECURSIVE ConcatAll(_)
ConcatAll(seqs) ==
    IF seqs = <<>> THEN <<>> ELSE Head(seqs) \o ConcatAll(Tail(seqs))

\* C8: a list compiles to the predicates of its leaves in order, which is
\* what its flattened form compiles to; [["a/**"], [{"added": "b/**"}]] gives
\* the unconstrained a/** and then the added-only b/**
C8_ConcatInOrder ==
    (Compiled /\ item.t = "array") =>
        LET leaves == LeavesOf(item)
        IN  /\ compiled.v =
                  ConcatAll([i \in 1..Len(leaves) |-> parseFilterItemYaml(leaves[i]).v])
            /\ compiled = parseFilterItemYaml(YArray(leaves))
            /\ item = NestedExample =>
                  compiled.v = << [hasStatus |-> FALSE, status |-> <<>>,
                                   isMatch |-> <<"a/**">>],
                                  [hasStatus |-> TRUE, status |-> <<Added>>,
                                   isMatch |-> <<"b/**">>] >>

\* the nested example was compiled to two predicates
C8_Witness ==
    /\ stage = "parsed"
    /\ item = NestedExample
    /\ Len(compiled.v) = 2

\* the pieces of a key between bars, as <<first, last>> positions
Pieces(key) ==
    {pos \in (1..(Len(key) + 1)) \X (0..Len(key)) :
        /\ pos[2] >= pos[1] - 1
        /\ \A n \in pos[1]..pos[2] : key[n] # "|"
        /\ pos[1] = 1 \/ key[pos[1] - 1] = "|"
        /\ pos[2] = Len(key) \/ key[pos[2] + 1] = "|"}

\* a string without its leading and trailing white space
Stripped(s) ==
    LET inked == {n \in 1..Len(s) : s[n] \notin WhiteSpace}
    IN  IF inked = {} THEN <<>>
        ELSE SubSeq(s, CHOOSE n \in inked : \A m \in inked : n <= m,
                       CHOOSE n \in inked : \A m \in inked : n >= m)

Tokens(key) ==
    {toLowerCase(Stripped(SubSeq(key, pos[1], pos[2]))) : pos \in Pieces(key)}
        \ {<<>>}

\* C9: the status set of a predicate is the set of the non-empty, trimmed,
\* lower-cased pieces of its key between bars; "Added | MODIFIED|" gives
\* {added, modified}: an Added file passes the status part, a Deleted file
\* never matches
C9_StatusTokens ==
    (Compiled /\ item.t = "object") =>
        /\ \A i \in 1..Len(item.v) :
              Range(compiled.v[i].status) = Tokens(item.v[i][1])
        /\ (Len(item.v) = 1 /\ item.v[1][1] = KeyMixed) =>
              /\ Range(compiled.v[1].status) = {Added, Modified}
              /\ stage = "tested" =>
                    /\ file.status = Deleted => ~matched
                    /\ file.status = Added =>
                          (matched <=> PathAccepted(compiled.v[1], file))

\* an Added file matched the rule {"Added | MODIFIED|": "**/*.ts"}
C9_Witness ==
    /\ stage = "tested"
    /\ item = StatusMap(KeyMixed, YString("**/*.ts"))
    /\ file = [filename |-> "src/a.ts", status |-> Added]
    /\ matched

\* a number, a boolean, null or a mapping with a value that is neither a
\* string nor a list, at any depth of the rule item
RECURSIVE HasBadShape(_)
HasBadShape(it) ==
    \/ it.t \in {"number", "boolean", "null"}
    \/ /\ it.t = "object"
       /\ \E i \in 1..Len(it.v) : it.v[i][2].t \notin {"string", "array"}
    \/ /\ it.t = "array"
       /\ \E i \in 1..Len(it.v) : HasBadShape(it.v[i])

\* C10 as stated: a rule item with a bad shape at any depth fails with the
\* error "Invalid filter YAML format: <reason>." and nothing is matched
C10_BadShapeIsFormatError ==
    (stage # "item" /\ HasBadShape(item)) =>
        /\ stage = "thrown"
        /\ compiled.error.name = "Error"
        /\ Len(compiled.error.message) = 3
        /\ compiled.error.message[1] = "Invalid filter YAML format: "
        /\ compiled.error.message[3] = "."

(***************************************************************************)
(* Properties of Filter.load (C11 under SpecRun, C12 under Spec).          *)
(***************************************************************************)
RootNotObject == throwInvalidFormatError("Root element is not an object")

\* C11: when the root of the document is a scalar or a sequence, the
\* construction of the Filter fails with the invalid-format error and the
\* rule table stays empty
C11_NonMappingRootRejected ==
    (op = "new" /\ inputs.filters \in RootValues) =>
        /\ thrown = RootNotObject
        /\ rules = <<>>

\* C12: a call of load that throws leaves the rule table as it was before
\* the call
C12_FailedLoadInstallsNothing ==
    [][(op' = "load" /\ thrown' # NoError) => rules' = rules]_vars

(***************************************************************************)
(* Properties of one run of the action (checked under SpecRun).            *)
(***************************************************************************)
\* the filter names of a mapping document, in the order of declaration
DeclaredNames(yaml) == [i \in 1..Len(yaml.v) |-> yaml.v[i][1]]

\* the names of the outputs that carry the boolean of a filter
BooleanOutputNames ==
    LET booleans == SelectSeq(outputs, LAMBDA o : o.value.t = "boolean")
    IN  [i \in 1..Len(booleans) |-> booleans[i].name]

\* the declared names whose filter matched a file, in the order of declaration
DeclaredMatching ==
    SelectSeq(DeclaredNames(inputs.filters),
              LAMBDA k : HasKey(result, k) /\ Get(result, k) # <<>>)

\* C13: the entries of the match result, the per-filter outputs and the names
\* of the changes list follow the order in which the document declares the
\* filters
C13_DeclarationOrder ==
    (pc = "done" /\ op = "match" /\ inputs.filters.t = "mapping") =>
        /\ [i \in 1..Len(result) |-> result[i][1]] = DeclaredNames(inputs.filters)
        /\ BooleanOutputNames = DeclaredNames(inputs.filters)
        /\ \A i \in 1..Len(outputs) :
              (outputs[i].name = "changes" /\ outputs[i].value.t = "string") =>
                  outputs[i].value.v = JSONstringify(DeclaredMatching)

\* C14: every file delivered by change detection has a status of the closed
\* enumeration, so a predicate whose status tokens all lie outside it accepts
\* none of the files
C14_UnknownStatusNeverMatches ==
    op = "match" =>
        /\ \A i \in 1..Len(files) : files[i].status \in ChangeStatus
        /\ \A r \in 1..Len(rules) : \A n \in 1..Len(rules[r][2]) :
              LET rule == rules[r][2][n]
              IN  (rule.hasStatus /\ \A j \in 1..Len(rule.status) :
                                        rule.status[j] \notin ChangeStatus)
                      => \A i \in 1..Len(files) : ~aPredicate(files[i], rule)

Written(name) ==
    LET calls == SelectSeq(outputs, LAMBDA o : o.name = name)
    IN  [i \in 1..Len(calls) |-> calls[i].value]

Exported == op = "match" /\ pc \in {"settled", "done"}

Format == listFilesOf(inputs.listFiles)

\* C16: for every filter k of the result, k is set to the boolean "matched a
\* file", k_count to the number of matched files, and k_files is set exactly
\* when the format is not none
C16_PerFilterOutputs ==
    Exported =>
        \A i \in 1..Len(result) :
            LET k == result[i][1]
                count == Len(result[i][2])
            IN  /\ Written(k) = <<JsBoolean(count > 0)>>
                /\ Written(k \o "_count") = <<JsNumber(count)>>
                /\ Len(Written(k \o "_files")) = IF Format = None THEN 0 ELSE 1

\* with the format json, a filter that matched no file got its file list
\* and another filter matched a file
C16_Witness ==
    /\ Exported
    /\ Format = Json
    /\ Written("src") = <<JsBoolean(FALSE)>>
    /\ Written("src_files") = <<JsString("[]")>>
    /\ Written("1_count") = <<JsNumber(1)>>
    /\ Written("1_files") = <<JsString("[\"src/a.ts\"]")>>

\* the names of the result whose list of files is not empty, in result order
MatchedNames ==
    LET matching == SelectSeq(result, LAMBDA e : e[2] # <<>>)
    IN  [i \in 1..Len(matching) |-> matching[i][1]]

\* C17: when no filter is named changes, changes is written once, with the
\* JSON array of the names of the filters that matched a file, in result
\* order, and with "[]" when no filter matched
C17_ChangesAggregate ==
    (Exported /\ ~HasKey(result, "changes")) =>
        /\ Written("changes") = <<JsString(JSONstringify(MatchedNames))>>
        /\ (\A i \in 1..Len(result) : result[i][2] = <<>>) =>
               Written("changes") = <<JsString("[]")>>

\* both filters of a document matched: the list names both, in result order
C17_Witness ==
    /\ Exported
    /\ Len(result) = 2
    /\ Written("changes") = <<JsString("[\"1\",\"src\"]")>>

\* C18: when a filter is named changes, changes holds the boolean of that
\* filter and changes_count its count, the aggregate is not written, and the
\* diagnostic is logged
C18_ChangesFilterWins ==
    (Exported /\ HasKey(result, "changes")) =>
        LET count == Len(Get(result, "changes"))
        IN  /\ Written("changes") = <<JsBoolean(count > 0)>>
            /\ Written("changes_count") = <<JsNumber(count)>>
            /\ \E i \in 1..Len(infos) : infos[i] = CannotSetChanges
            /\ \A i \in 1..Len(infos) : infos[i][1] # "Changes output set to "

\* the filter named changes matched nothing while another filter matched
C18_Witness ==
    /\ Exported
    /\ HasKey(result, "changes")
    /\ Get(result, "changes") = <<>>
    /\ \E i \in 1..Len(result) : result[i][2] # <<>>
    /\ Written("changes") = <<JsBoolean(FALSE)>>

(***************************************************************************)
(* Properties of runPathsFilterAction and main (checked under SpecRun).    *)
(***************************************************************************)
\* the run failed on list-files, quoting value, and did nothing else
FailedOnListFiles(value) ==
    /\ failed = <<ListFilesInvalidMessage(value)>>
    /\ promise = Resolved
    /\ op = "none"
    /\ rules = <<>>
    /\ files = <<>>
    /\ result = <<>>
    /\ outputs = <<>>

Reported(reason) ==
    CASE reason.t = "error" -> reason.v.message
      [] reason.t = "string" -> <<reason.v>>
      [] reason.t = "undefined" -> <<"undefined">>

\* C20: main always gets past its await; after a rejection it has called
\* setFailed once, with the message of an Error and the string form of any
\* other value; after a resolution it has not called setFailed
C20_MainIsErrorBoundary ==
    /\ pc = "settled" => ENABLED Settle
    /\ pc = "done" =>
          IF promise.state = "rejected"
          THEN failed = <<Reported(promise.reason)>>
          ELSE failed = IF Format \notin ExportFormats
                        THEN <<ListFilesInvalidMessage(Format)>> ELSE <<>>

\* main reported a rejection with undefined
C20_Witness ==
    /\ pc = "done"
    /\ promise = Rejected(JsUndefined)
    /\ failed = << <<"undefined">> >>

(***************************************************************************)
(* Properties of the escape functions (checked under SpecEscape).          *)
(***************************************************************************)
Has(v, c) == \E k \in 1..Len(v) : v[k] = c

AllIn(v, class) == \A k \in 1..Len(v) : v[k] \in class

\* the value C21 gives for v
RECURSIVE ShellForm(_)
ShellForm(v) ==
    IF v = <<>> \/ AllIn(v, ShellSafe) THEN v
    ELSE IF Has(v, "'") /\ AllIn(v, QuotableSafe)
    THEN <<"\"">> \o v \o <<"\"">>
    ELSE IF Has(v, "'")
    THEN LET pieces == splitAt(v, "'")
         IN  joinWith([i \in 1..Len(pieces) |-> ShellForm(pieces[i])],
                      <<"\\", "'">>)
    ELSE <<"'">> \o v \o <<"'">>

\* C21: shellEscape(v) is v when v is empty or all safe, v in double quotes
\* when v has a single quote and otherwise safe characters and whitespace,
\* the escaped pieces joined by \' when v has a single quote and another
\* unsafe character, and v in single quotes otherwise, line breaks included
C21_ShellEscapeCases ==
    escaper = "shellEscape" => escaped = ShellForm(arg)

\* C22: csvEscape(v) is v when v is empty or all safe, and otherwise v in
\* double quotes with every inner double quote doubled
C22_CsvEscapeCases ==
    escaper = "csvEscape" =>
        escaped = IF arg = <<>> \/ AllIn(arg, CsvSafe)
                  THEN arg
                  ELSE <<"\"">> \o doubleQuotes(arg) \o <<"\"">>

\* the positions of escaped that hold the characters of v: position k of v
\* moves right by the number of unsafe characters up to and including k
Unsafe(v, k) == Cardinality({m \in 1..k : v[m] \notin ShellSafe})

\* C23: backslashEscape(v) keeps the characters of v in order, puts exactly
\* one backslash before each unsafe one, and nothing else: its length is the
\* length of v plus the number of unsafe characters
C23_BackslashBeforeUnsafe ==
    escaper = "backslashEscape" =>
        /\ Len(escaped) = Len(arg) + Unsafe(arg, Len(arg))
        /\ \A k \in 1..Len(arg) :
              /\ escaped[k + Unsafe(arg, k)] = arg[k]
              /\ arg[k] \notin ShellSafe => escaped[k + Unsafe(arg, k) - 1] = "\\"
        /\ AllIn(arg, ShellSafe) => escaped = arg

\* a string with a safe character, a line break and a space was escaped
C23_Witness ==
    /\ escaper = "backslashEscape"
    /\ arg = <<"a", "\n", " ">>
    /\ escaped = <<"a", "\\", "\n", "\\", " ">>

(***************************************************************************)
(* Properties of getChangesSinceMergeBase (checked under SpecMergeBaseFair).*)
(***************************************************************************)
Count(seq, x) == Cardinality({i \in 1..Len(seq) : seq[i] = x})

FullFetches == Cardinality({i \in 1..Len(search.fetches) :
                              search.fetches[i].kind = "full"})

\* the last deepening fetch of search.fetches brought no new commit: it is
\* followed by the full fetch
FullFetchLast ==
    /\ Len(search.fetches) >= 2
    /\ search.fetches[Len(search.fetches)].kind = "full"
    /\ search.fetches[Len(search.fetches) - 1].kind = "deepen"

SearchReturned == search.pc = "done" /\ search.thrown = ""

\* C28: the search ends; at most MaxCommits + 4 fetches are made (the first
\* one, the tags, MaxCommits + 1 deepening ones and the full one), at most
\* one of them a full fetch, which comes right after a deepening fetch;
\* a call that returns has made exactly one diff, with two dots and
\* a warning exactly when no merge base exists after the full fetch, and with
\* three dots otherwise; a failed call has made no diff
C28_MergeBaseSearchTerminates ==
    /\ <>(search.pc = "done")
    /\ [](/\ FullFetches <= 1
          /\ FullFetches = 1 => FullFetchLast
          /\ Len(search.fetches) <= MaxCommits + 4
          /\ search.noMergeBase => FullFetches = 1 /\ ~search.mergeBase
          /\ search.pc # "done" => search.diffs = <<>>
          /\ SearchReturned =>
                /\ Len(search.diffs) = 1
                /\ FullFetches = 0 => hasMergeBase(search)
                /\ search.diffs[1] = (IF hasMergeBase(search) THEN "..." ELSE "..")
                /\ search.warnings =
                      (IF hasMergeBase(search) THEN <<>> ELSE <<NoMergeBaseWarning>>)
          /\ (search.pc = "done" /\ search.thrown # "") => search.diffs = <<>>)

\* the search deepened twice, fetched the full history, found no merge base
\* and compared with two dots
C28_Witness ==
    /\ SearchReturned
    /\ search.diffs = <<"..">>
    /\ Count([i \in 1..Len(search.fetches) |-> search.fetches[i].kind], "deepen") = 2
    /\ FullFetches = 1

(***************************************************************************)
(* Properties of the choice of the detection method (checked under         *)
(* SpecDetect).                                                            *)
(***************************************************************************)
Detected == detection # NotDetected

BaseIsHead == context.base = <<"H", "E", "A", "D">>

IsPullRequestEvent ==
    context.eventName \in {"pull_request", "pull_request_review",
                           "pull_request_review_comment", "pull_request_target"}

\* C24: with base HEAD the files come from getChangesOnHead whatever the
\* event and the token, nothing is thrown, and a non-empty ref input is
\* answered by the warning that ref is ignored
C24_HeadUsesChangesOnHead ==
    (Detected /\ BaseIsHead) =>
        /\ detection.fn = "getChangesOnHead"
        /\ detection.thrown = ""
        /\ context.ref # <<>> =>
              \E i \in 1..Len(detection.warnings) :
                 detection.warnings[i] = RefIgnoredWarning

\* base HEAD on a pull request event with a token and a ref input
C24_Witness ==
    /\ BaseIsHead
    /\ context.eventName = "pull_request"
    /\ context.token # <<>>
    /\ context.ref # <<>>
    /\ detection.fn = "getChangesOnHead"
    /\ detection.warnings = <<RefIgnoredWarning>>

\* C25: without an initial-fetch-depth input, a merge-base detection is
\* called with the depth 100
C25_DefaultFetchDepth ==
    (context.initialFetchDepth = <<>>
        /\ detection.fn = "getChangesSinceMergeBase") =>
        detection.args[3] = JsNumber(100)

\* the first available of the base input, the base SHA of the pull request
\* and the default branch; undefined when there is none
FirstAvailableBase ==
    IF context.base # <<>> THEN JsString(context.base)
    ELSE IF context.pullRequestBaseSha.t = "string" THEN context.pullRequestBaseSha
    ELSE IF context.defaultBranch.t = "string" THEN context.defaultBranch
    ELSE JsUndefined

\* C26: on pull_request, pull_request_review and pull_request_review_comment
\* without a token and with base not HEAD, the detection is
\* getChanges(resolvedBase, currentRef) with the first available base, and
\* the error is thrown only when there is none
C26_PullRequestWithoutToken ==
    (/\ Detected
     /\ context.eventName \in {"pull_request", "pull_request_review",
                               "pull_request_review_comment"}
     /\ context.token = <<>>
     /\ ~BaseIsHead) =>
        IF FirstAvailableBase = JsUndefined
        THEN detection.thrown = NoBaseBranchError
        ELSE /\ detection.thrown = ""
             /\ detection.fn = "getChanges"
             /\ detection.args = <<FirstAvailableBase, JsString(context.currentRef)>>

\* a ref without its refs/heads/ or refs/tags/ prefix
Short(name) ==
    IF Len(name) >= 11 /\ SubSeq(name, 1, 11) = <<"r","e","f","s","/","h","e","a","d","s","/">>
    THEN SubSeq(name, 12, Len(name))
    ELSE IF Len(name) >= 10 /\ SubSeq(name, 1, 10) = <<"r","e","f","s","/","t","a","g","s","/">>
    THEN SubSeq(name, 11, Len(name))
    ELSE name

\* the head and the base getChangedFilesFromGit compares: <<>> when missing
ResolvedHead ==
    Short(IF context.ref # <<>> THEN context.ref
          ELSE IF context.contextRef # <<>> THEN context.contextRef
          ELSE context.currentRef)

ResolvedBase ==
    Short(IF context.base # <<>> THEN context.base
          ELSE IF context.defaultBranch.t = "string" THEN context.defaultBranch.v
          ELSE <<>>)

NullSha == [i \in 1..40 |-> "0"]

IsSha(name) ==
    /\ Len(name) = 40
    /\ \A k \in 1..40 :
          name[k] \in {"0","1","2","3","4","5","6","7","8","9",
                       "a","b","c","d","e","f"}

\* the `before` SHA of a push; absent on every other event
BeforePresent == context.eventName = "push" /\ context.before.t = "string"

Depth == JsNumber(initialFetchDepthOf(context.initialFetchDepth))

DetectionIs(fn, args) ==
    /\ detection.thrown = ""
    /\ detection.fn = fn
    /\ detection.args = args

\* C27: on an event that is not a pull request event, with base not HEAD,
\* the one detection method called is the one the cases of the claim name
C27_GitDetectionChoice ==
    (Detected /\ ~IsPullRequestEvent /\ ~BaseIsHead) =>
        LET firstPush ==
                IF context.defaultBranch.t = "string"
                      /\ context.defaultBranch.v # ResolvedBase
                THEN DetectionIs("getChangesSinceMergeBase",
                                 <<context.defaultBranch,
                                   JsString(ResolvedHead), Depth>>)
                ELSE DetectionIs("listAllFilesAsAdded", <<>>)
        IN  IF ResolvedHead = <<>> \/ ResolvedBase = <<>>
            THEN detection.fn = "none" /\ detection.thrown # ""
            ELSE IF IsSha(ResolvedBase) /\ ResolvedBase # NullSha
            THEN DetectionIs("getChanges",
                             <<JsString(ResolvedBase), JsString(ResolvedHead)>>)
            ELSE IF ResolvedBase = NullSha
            THEN firstPush
            ELSE IF ResolvedBase = ResolvedHead /\ ~BeforePresent
            THEN DetectionIs("getChangesInLastCommit", <<>>)
            ELSE IF ResolvedBase = ResolvedHead /\ context.before.v = NullSha
            THEN firstPush
            ELSE IF ResolvedBase = ResolvedHead
            THEN DetectionIs("getChanges",
                             <<context.before, JsString(ResolvedHead)>>)
            ELSE DetectionIs("getChangesSinceMergeBase",
                             <<JsString(ResolvedBase), JsString(ResolvedHead),
                               Depth>>)

\* the first push of the branch dev: base and head are dev, `before` is the
\* null SHA, and the changes are taken since the merge base with main
C27_Witness ==
    /\ context.eventName = "push"
    /\ context.base = Dev
    /\ context.before = JsString(NullSha)
    /\ context.defaultBranch = JsString(Main)
    /\ DetectionIs("getChangesSinceMergeBase",
                   <<JsString(Main), JsString(Dev), Depth>>)

(***************************************************************************)
(* Properties of exportResults (checked under SpecExport).                 *)
(***************************************************************************)
\* C29: one run of exportResults writes no output name twice
C29_NoOutputWrittenTwice ==
    pc = "exported" =>
        \A i, j \in 1..Len(outputs) :
            i # j => outputs[i].name # outputs[j].name

(***************************************************************************)
(* Properties of successive loads (checked under SpecLoad).                *)
(***************************************************************************)
\* the entries a document declares
Declared(yaml) == IF yaml = EmptyYaml THEN <<>> ELSE yaml.v

\* C30: no load removes a filter; after a successful load the rule table has
\* the names it had and the names of the document, a name of the document
\* carries the predicates of the document, every other name keeps its
\* predicates, and the load of an empty string changes nothing
C30_LoadsAccumulate ==
    [][op' = "load" =>
          /\ KeySet(rules) \subseteq KeySet(rules')
          /\ thrown' = NoError =>
                LET d == Declared(inputs'.filters)
                    names == {d[i][1] : i \in 1..Len(d)}
                IN  /\ KeySet(rules') = KeySet(rules) \cup names
                    /\ Len(rules') = Cardinality(KeySet(rules'))
                    /\ \A i \in 1..Len(d) :
                          Get(rules', d[i][1]) = parseFilterItemYaml(d[i][2]).v
                    /\ \A k \in KeySet(rules) \ names :
                          Get(rules', k) = Get(rules, k)
                    /\ inputs'.filters = EmptyYaml => rules' = rules]_vars

\* a document with one filter was loaded into a table that had the other
\* filter from an earlier load
C30_Witness ==
    /\ op = "load"
    /\ thrown = NoError
    /\ inputs.filters # EmptyYaml
    /\ Len(inputs.filters.v) = 1
    /\ KeySet(rules) = {"src", "docs"}

====
